---- MODULE Spec2Model ----
(***************************************************************************)
(* Model of app.py: TileMatrix (one zoom level of a WMTS layer).           *)
(*                                                                         *)
(* Lengths are integers counted in units of 0.28 mm, the WMTS standard     *)
(* pixel size, so that pixel_span = scaledenominator * 0.28 * 1e-3 metres  *)
(* is scaledenominator * StdPixelSize units.  The "unrounded (float) tile  *)
(* index" of _rd_to_tile is kept as an exact fraction num/den; eps = 1e-6  *)
(* is the fraction 1/EpsDen.  All tile spans of the modelled capabilities  *)
(* are multiples of EpsDen units, hence floor(num/den +- eps) is computed  *)
(* exactly as floor((num +- den/EpsDen)/den).  IEEE rounding of the        *)
(* double arithmetic (relative error 2^-53) is far below one length unit   *)
(* and below eps, and is not modelled.                                     *)
(***************************************************************************)
EXTENDS Integers, Sequences, FiniteSets, TLC

VARIABLES
    tm,         \* the TileMatrix object (self), NoTM before/without construction
    error,      \* message of the exception raised by the last constructor call
    bbox,       \* argument of the current bbox_tiles / fetch call
    index,      \* argument of the current tile_bbox call
    tiles,      \* indices produced by the last bbox_tiles call, in order
    called,     \* TRUE once bbox_tiles has been applied to bbox
    pc,         \* position of the fetch generator
    dir_path,   \* TRUE while the directory made by mkdtemp exists
    files,      \* names of the image files present in dir_path
    pending,    \* indices the generator's for-loop has still to visit
    yielded,    \* Tiles handed to the consumer so far, in order
    attempts,   \* indices for which wmts.gettile has been called, in order
    events,     \* what the consumer observed: "tile", "error", "stop"
    args        \* arguments of the last constructor call, NoArgs before it

vars == <<args, tm, error, bbox, index, tiles, called, pc, dir_path, files,
          pending, yielded, attempts, events>>


----------------------------------------------------------------------------
(* Bounds of the model. *)

\* Box corners are taken around the grid lines 0..MaxLine and the last line.
MaxLine == 2

\* Corners of the boxes given to fetch lie on the lines -1..MaxFetchLine.
MaxFetchLine == 1

----------------------------------------------------------------------------
(* Program constants. *)

\* eps = 1e-6 = 1 / EpsDen.
EpsDen == 1000000

\* 0.28 * 1e-3 metres, in length units.
StdPixelSize == 1

NoTM == [kind |-> "none"]
NoBox == [kind |-> "none"]
NoIndex == [kind |-> "none"]
NoArgs == [kind |-> "none"]

----------------------------------------------------------------------------
(* The service capabilities read by WebMapTileService(url). *)

Matrix12 ==
    [scaledenominator |-> 15625, tilewidth |-> 512, tileheight |-> 256,
     matrixwidth |-> 3, matrixheight |-> 2,
     topleftcorner |-> <<-8000000, 12000000>>]

Matrix13 ==
    [scaledenominator |-> 15625, tilewidth |-> 256, tileheight |-> 256,
     matrixwidth |-> 10, matrixheight |-> 10,
     topleftcorner |-> <<0, 40000000>>]

Matrix0 ==
    [scaledenominator |-> 31250, tilewidth |-> 256, tileheight |-> 256,
     matrixwidth |-> 1, matrixheight |-> 1,
     topleftcorner |-> <<0, 8000000>>]

wmts ==
    [contents |->
        [lufo_rd |-> [tilematrixsetlinks |-> {"nl_grid"},
                      formats |-> {"image/jpeg"}],
         topo_rd |-> [tilematrixsetlinks |-> {"nl_grid", "wgs84"},
                      formats |-> {"image/png", "image/jpeg"}],
         old_rd  |-> [tilematrixsetlinks |-> {"retired"},
                      formats |-> {"image/png"}]],
     tilematrixsets |->
        [nl_grid |-> [tilematrix |-> [m12 |-> Matrix12, m13 |-> Matrix13]],
         wgs84   |-> [tilematrix |-> [m0 |-> Matrix0]]]]

\* Arguments tried for the constructor.
LayerArgs == {"lufo_rd", "topo_rd", "old_rd", "nolayer"}
SystemArgs == {"nl_grid", "wgs84", "retired"}
LevelArgs == {"m12", "m13", "m0"}
FormatArgs == {"image/jpeg", "image/png"}

----------------------------------------------------------------------------
(* Arithmetic helpers. *)

Max(a, b) == IF a >= b THEN a ELSE b
Min(a, b) == IF a <= b THEN a ELSE b

\* math.floor of the exact quotient a / b, b > 0.
floor(a, b) == IF a >= 0 THEN a \div b ELSE -((-a + b - 1) \div b)

----------------------------------------------------------------------------
(* Value types. *)

Rijksdriehoek(x, y) == [x |-> x, y |-> y]
BoundingBox(lower, upper) == [lower |-> lower, upper |-> upper]
TileIndex(row, col) == [row |-> row, col |-> col]
Tile(idx, filename, box) == [index |-> idx, filename |-> filename, bbox |-> box]

----------------------------------------------------------------------------
(* TileMatrix.__init__ *)

\* The checks with the one of the layer's link to the tile system left out.
FailedCheckNoLink(layer, tile_system, format) ==
    IF layer \notin DOMAIN wmts.contents
        THEN "Layer not found."
    ELSE IF tile_system \notin DOMAIN wmts.tilematrixsets
        THEN "Tile matrix set not found."
    ELSE IF format \notin wmts.contents[layer].formats
        THEN "Unsupported format."
    ELSE ""

\* Message of the first assert statement that fails, "" when all four pass.
FailedCheck(layer, tile_system, format) ==
    IF layer \notin DOMAIN wmts.contents
        THEN "Layer not found."
    ELSE IF tile_system \notin DOMAIN wmts.tilematrixsets
        THEN "Tile matrix set not found."
    ELSE IF tile_system \notin wmts.contents[layer].tilematrixsetlinks
        THEN "Tile system not found."
    ELSE IF format \notin wmts.contents[layer].formats
        THEN "Unsupported format."
    ELSE ""

\* The exception __init__ raises for these arguments, "" when it returns.
InitError(layer, tile_system, tile_level, format) ==
    IF FailedCheck(layer, tile_system, format) # ""
        THEN FailedCheck(layer, tile_system, format)
    ELSE IF tile_level \notin DOMAIN wmts.tilematrixsets[tile_system].tilematrix
        THEN "KeyError"
    ELSE ""

\* The attributes __init__ stores on self when it returns.
NewTileMatrix(layer, tile_system, tile_level, format) ==
    LET matrix == wmts.tilematrixsets[tile_system].tilematrix[tile_level]
        pixel_span == matrix.scaledenominator * StdPixelSize
    IN  [kind |-> "TileMatrix",
         layer |-> layer, tile_system |-> tile_system,
         tile_level |-> tile_level, format |-> format,
         matrix |-> matrix,
         pixel_span |-> pixel_span,
         span_x |-> matrix.tilewidth * pixel_span,
         span_y |-> matrix.tileheight * pixel_span]

----------------------------------------------------------------------------
(* TileMatrix.bbox_tiles and TileMatrix.tile_bbox *)

\* The unrounded tile index of xy; each component is the fraction num / den.
rd_to_tile(self, xy) ==
    [row |-> [num |-> self.matrix.topleftcorner[2] - xy.y, den |-> self.span_y],
     col |-> [num |-> xy.x - self.matrix.topleftcorner[1], den |-> self.span_x]]

\* eps as a numerator over the denominator den.
eps(den) == den \div EpsDen

floor_plus_eps(q) == floor(q.num + eps(q.den), q.den)
floor_minus_eps(q) == floor(q.num - eps(q.den), q.den)

row_min(self, box) == Max(floor_plus_eps(rd_to_tile(self, box.upper).row), 0)
col_min(self, box) == Max(floor_plus_eps(rd_to_tile(self, box.lower).col), 0)
row_max(self, box) ==
    Min(floor_minus_eps(rd_to_tile(self, box.lower).row),
        self.matrix.matrixheight - 1)
col_max(self, box) ==
    Min(floor_minus_eps(rd_to_tile(self, box.upper).col),
        self.matrix.matrixwidth - 1)

\* range(start, stop) with the "+ 1" of the stop forgotten by its caller.
range_len_short(start, stop) == Max(stop - start - 1, 0)

\* Number of values of Python's range(start, stop).
range_len(start, stop) == Max(stop - start, 0)

\* The indices the generator expression produces, in its (row-major) order.
bbox_tiles(self, box) ==
    LET r0 == row_min(self, box)
        c0 == col_min(self, box)
        nrows == range_len(r0, row_max(self, box) + 1)
        ncols == range_len(c0, col_max(self, box) + 1)
    IN  [k \in 1..(nrows * ncols) |->
            TileIndex(r0 + ((k - 1) \div ncols), c0 + ((k - 1) % ncols))]

tile_bbox(self, tile) ==
    LET x_min == tile.col * self.span_x + self.matrix.topleftcorner[1]
        y_max == self.matrix.topleftcorner[2] - tile.row * self.span_y
    IN  BoundingBox(Rijksdriehoek(x_min, y_max - self.span_y),
                    Rijksdriehoek(x_min + self.span_x, y_max))

----------------------------------------------------------------------------
(* Arguments tried for bbox_tiles, tile_bbox and fetch. *)

\* Distances from a grid line: on it, half an eps and one and a half eps to
\* either side of it, and the middle of the tile.
Offsets(span) ==
    {0, eps(span) \div 2, -(eps(span) \div 2),
     3 * (eps(span) \div 2), -(3 * (eps(span) \div 2)), span \div 2}

FewOffsets(span) == {0, eps(span) \div 2, -(eps(span) \div 2), span \div 2}

Lines(n) == {g \in 0..MaxLine : g <= n} \cup {n}

XCoords(self) ==
    {self.matrix.topleftcorner[1] + g * self.span_x + o :
        g \in Lines(self.matrix.matrixwidth), o \in Offsets(self.span_x)}

YCoords(self) ==
    {self.matrix.topleftcorner[2] - g * self.span_y + o :
        g \in {0, 1, self.matrix.matrixheight}, o \in FewOffsets(self.span_y)}

\* All boxes over the coordinates, the malformed ones (lower > upper) included.
Boxes(self) ==
    {BoundingBox(Rijksdriehoek(x1, y1), Rijksdriehoek(x2, y2)) :
        x1 \in XCoords(self), x2 \in XCoords(self),
        y1 \in YCoords(self), y2 \in YCoords(self)}

\* tile_bbox validates nothing: one index beyond the grid on each side too.
Indices(self) ==
    {TileIndex(r, c) : r \in -1..self.matrix.matrixheight,
                       c \in -1..self.matrix.matrixwidth}

FetchXCoords(self) ==
    {self.matrix.topleftcorner[1] + g * self.span_x + o :
        g \in -1..MaxFetchLine, o \in {0, self.span_x \div 2}}

FetchYCoords(self) ==
    {self.matrix.topleftcorner[2] - g * self.span_y + o :
        g \in 0..1, o \in {0, -(self.span_y \div 2)}}

FetchBoxes(self) ==
    {BoundingBox(Rijksdriehoek(x1, y1), Rijksdriehoek(x2, y2)) :
        x1 \in FetchXCoords(self), x2 \in FetchXCoords(self),
        y1 \in FetchYCoords(self), y2 \in FetchYCoords(self)}

----------------------------------------------------------------------------
(* The caller: tm = TileMatrix(url, layer, tile_system, tile_level, format) *)

Construct(layer, tile_system, tile_level, format) ==
    /\ pc = "idle"
    /\ tm = NoTM
    /\ args' = [layer |-> layer, tile_system |-> tile_system,
                tile_level |-> tile_level, format |-> format]
    /\ error' = InitError(layer, tile_system, tile_level, format)
    /\ tm' = IF InitError(layer, tile_system, tile_level, format) = ""
                THEN NewTileMatrix(layer, tile_system, tile_level, format)
                ELSE NoTM
    /\ UNCHANGED <<bbox, index, tiles, called, pc, dir_path, files, pending,
                   yielded, attempts, events>>

----------------------------------------------------------------------------
(* TileMatrix.fetch, a generator, and TileMatrix.fetch_tile *)

\* ext = self.format.split('/')[-1]
ext(format) ==
    CASE format = "image/jpeg" -> "jpeg"
      [] format = "image/png" -> "png"

\* joinpath(dir_path, f'{index.row}_{index.col}.{ext}')
filename(self, idx) == <<idx.row, idx.col, ext(self.format)>>

\* gen = tm.fetch(box): the generator object is made, none of its body runs.
Fetch(box) ==
    /\ tm # NoTM
    /\ pc = "idle"
    /\ pc' = "created"
    /\ bbox' = box
    /\ UNCHANGED <<args, tm, error, index, tiles, called, dir_path, files,
                   pending, yielded, attempts, events>>

\* The indices the for-loop has yet to visit when the body is resumed: the
\* first next() runs mkdtemp and calls bbox_tiles, a later one continues.
Remaining == IF pc = "created" THEN bbox_tiles(tm, bbox) ELSE pending

\* next(gen) runs the body from where it stands.
Resume ==
    /\ pc \in {"created", "suspended"}
    /\ tiles' = IF pc = "created" THEN bbox_tiles(tm, bbox) ELSE tiles
    /\ called' = TRUE
    /\ UNCHANGED <<args, tm, error, bbox, index>>

\* fetch_tile returns: the image is written and the Tile is yielded.
NextYields ==
    /\ Resume
    /\ Remaining # <<>>
    /\ LET idx == Head(Remaining) IN
        /\ attempts' = Append(attempts, idx)
        /\ files' = files \cup {filename(tm, idx)}
        /\ yielded' = Append(yielded,
                        Tile(idx, filename(tm, idx), tile_bbox(tm, idx)))
    /\ pending' = Tail(Remaining)
    /\ dir_path' = TRUE
    /\ pc' = "suspended"
    /\ events' = Append(events, "tile")

\* wmts.gettile raises and fetch swallows it: the loop is left, the
\* directory removed, and the sequence ends as if complete.
NextGettileSwallowed ==
    /\ Resume
    /\ Remaining # <<>>
    /\ attempts' = Append(attempts, Head(Remaining))
    /\ pending' = <<>>
    /\ dir_path' = FALSE
    /\ files' = {}
    /\ pc' = "exhausted"
    /\ events' = Append(events, "stop")
    /\ UNCHANGED yielded

\* wmts.gettile raises: the exception leaves fetch_tile and the generator.
NextGettileRaises ==
    /\ Resume
    /\ Remaining # <<>>
    /\ attempts' = Append(attempts, Head(Remaining))
    /\ pending' = <<>>
    /\ dir_path' = TRUE
    /\ pc' = "raised"
    /\ events' = Append(events, "error")
    /\ UNCHANGED <<files, yielded>>

\* open() made the file and f.write or res.read raises.
NextWriteRaises ==
    /\ Resume
    /\ Remaining # <<>>
    /\ attempts' = Append(attempts, Head(Remaining))
    /\ files' = files \cup {filename(tm, Head(Remaining))}
    /\ pending' = <<>>
    /\ dir_path' = TRUE
    /\ pc' = "raised"
    /\ events' = Append(events, "error")
    /\ UNCHANGED yielded

\* The for-loop ends and the directory is left behind.
NextExhaustsNoRmtree ==
    /\ Resume
    /\ Remaining = <<>>
    /\ dir_path' = TRUE
    /\ UNCHANGED files
    /\ pending' = <<>>
    /\ pc' = "exhausted"
    /\ events' = Append(events, "stop")
    /\ UNCHANGED <<yielded, attempts>>

\* The for-loop ends: shutil.rmtree(dir_path), then StopIteration.
NextExhausts ==
    /\ Resume
    /\ Remaining = <<>>
    /\ dir_path' = FALSE
    /\ files' = {}
    /\ pending' = <<>>
    /\ pc' = "exhausted"
    /\ events' = Append(events, "stop")
    /\ UNCHANGED <<yielded, attempts>>

\* The consumer stops early: gen.close(), or the generator is collected.
\* GeneratorExit is raised at the yield (no body has run in "created");
\* fetch has no try/finally, so nothing of it runs any more.
Close ==
    /\ pc \in {"created", "suspended"}
    /\ pc' = "closed"
    /\ UNCHANGED <<args, tm, error, bbox, index, tiles, called, dir_path,
                   files, pending, yielded, attempts, events>>

\* next(gen) on the generator that raised: it is finished, StopIteration.
NextAfterRaise ==
    /\ pc = "raised"
    /\ events[Len(events)] = "error"
    /\ events' = Append(events, "stop")
    /\ UNCHANGED <<args, tm, error, bbox, index, tiles, called, pc, dir_path,
                   files, pending, yielded, attempts>>

----------------------------------------------------------------------------
(* Construction and one fetch. *)

Init ==
    /\ args = NoArgs
    /\ tm = NoTM
    /\ error = ""
    /\ bbox = NoBox
    /\ index = NoIndex
    /\ tiles = <<>>
    /\ called = FALSE
    /\ pc = "idle"
    /\ dir_path = FALSE
    /\ files = {}
    /\ pending = <<>>
    /\ yielded = <<>>
    /\ attempts = <<>>
    /\ events = <<>>

Next ==
    \/ \E layer \in LayerArgs, tile_system \in SystemArgs,
          tile_level \in LevelArgs, format \in FormatArgs :
            Construct(layer, tile_system, tile_level, format)
    \/ \E box \in (IF tm = NoTM THEN {} ELSE FetchBoxes(tm)) : Fetch(box)
    \/ NextYields
    \/ NextGettileRaises
    \/ NextWriteRaises
    \/ NextExhausts
    \/ Close
    \/ NextAfterRaise

Spec == Init /\ [][Next]_vars

----------------------------------------------------------------------------
(* The geometry alone: bbox_tiles and tile_bbox applied to drawn arguments. *)

GeoMatrices ==
    {NewTileMatrix("topo_rd", "nl_grid", "m12", "image/png"),
     NewTileMatrix("topo_rd", "nl_grid", "m13", "image/png"),
     NewTileMatrix("topo_rd", "wgs84", "m0", "image/png")}

InitGeo ==
    /\ tm \in GeoMatrices
    /\ args = [layer |-> tm.layer, tile_system |-> tm.tile_system,
               tile_level |-> tm.tile_level, format |-> tm.format]
    /\ error = ""
    /\ \/ bbox \in Boxes(tm) /\ index = NoIndex
       \/ bbox = NoBox /\ index \in Indices(tm)
    /\ tiles = <<>>
    /\ called = FALSE
    /\ pc = "idle"
    /\ dir_path = FALSE
    /\ files = {}
    /\ pending = <<>>
    /\ yielded = <<>>
    /\ attempts = <<>>
    /\ events = <<>>

\* box = tm.tile_bbox(index)
CallTileBbox ==
    /\ index # NoIndex
    /\ bbox = NoBox
    /\ bbox' = tile_bbox(tm, index)
    /\ UNCHANGED <<args, tm, error, index, tiles, called, pc, dir_path, files,
                   pending, yielded, attempts, events>>

\* list(tm.bbox_tiles(box))
CallBboxTiles ==
    /\ bbox # NoBox
    /\ ~called
    /\ tiles' = bbox_tiles(tm, bbox)
    /\ called' = TRUE
    /\ UNCHANGED <<args, tm, error, bbox, index, pc, dir_path, files,
                   pending, yielded, attempts, events>>

NextGeo == CallTileBbox \/ CallBboxTiles

SpecGeo == InitGeo /\ [][NextGeo]_vars

----------------------------------------------------------------------------
(* Vocabulary of the properties. *)

Range(seq) == {seq[k] : k \in 1..Len(seq)}

WellFormed(box) ==
    box.lower.x <= box.upper.x /\ box.lower.y <= box.upper.y

PositiveArea(box) ==
    box.lower.x < box.upper.x /\ box.lower.y < box.upper.y

\* The closed rectangles share a point.
Intersects(a, b) ==
    /\ a.lower.x <= b.upper.x /\ b.lower.x <= a.upper.x
    /\ a.lower.y <= b.upper.y /\ b.lower.y <= a.upper.y

\* The rectangles share an area: b reaches into a by a positive distance.
Overlaps(a, b) ==
    /\ Max(a.lower.x, b.lower.x) < Min(a.upper.x, b.upper.x)
    /\ Max(a.lower.y, b.lower.y) < Min(a.upper.y, b.upper.y)

Contains(box, p) ==
    /\ box.lower.x <= p.x /\ p.x <= box.upper.x
    /\ box.lower.y <= p.y /\ p.y <= box.upper.y

InGrid(self, idx) ==
    /\ 0 <= idx.row /\ idx.row <= self.matrix.matrixheight - 1
    /\ 0 <= idx.col /\ idx.col <= self.matrix.matrixwidth - 1

GridCells(self) ==
    {TileIndex(r, c) : r \in 0..(self.matrix.matrixheight - 1),
                       c \in 0..(self.matrix.matrixwidth - 1)}

\* The extent of the whole grid.
GridExtent(self) ==
    BoundingBox(
        Rijksdriehoek(self.matrix.topleftcorner[1],
                      self.matrix.topleftcorner[2]
                        - self.matrix.matrixheight * self.span_y),
        Rijksdriehoek(self.matrix.topleftcorner[1]
                        + self.matrix.matrixwidth * self.span_x,
                      self.matrix.topleftcorner[2]))

InsideGrid(self, box) ==
    /\ Contains(GridExtent(self), box.lower)
    /\ Contains(GridExtent(self), box.upper)

\* The capabilities declare the combination.
ValidCombination(a) ==
    /\ a.layer \in DOMAIN wmts.contents
    /\ a.tile_system \in DOMAIN wmts.tilematrixsets
    /\ a.tile_system \in wmts.contents[a.layer].tilematrixsetlinks
    /\ a.format \in wmts.contents[a.layer].formats

\* The message names a constraint that the combination violates.
NamesViolation(msg, a) ==
    \/ msg = "Layer not found." /\ a.layer \notin DOMAIN wmts.contents
    \/ msg = "Tile matrix set not found."
        /\ a.tile_system \notin DOMAIN wmts.tilematrixsets
    \/ msg = "Tile system not found."
        /\ a.layer \in DOMAIN wmts.contents
        /\ a.tile_system \notin wmts.contents[a.layer].tilematrixsetlinks
    \/ msg = "Unsupported format."
        /\ a.layer \in DOMAIN wmts.contents
        /\ a.format \notin wmts.contents[a.layer].formats

----------------------------------------------------------------------------
(* Properties of construction and fetch, checked under Spec. *)

\* C1: however an iteration of fetch ends (exhausted, closed early by the
\* consumer, or a retrieval raised), the temporary directory it made is
\* gone: no terminal state of the generator has the directory existing.
C1_DirRemovedOnEveryExit ==
    pc \in {"exhausted", "raised", "closed"} => ~dir_path

\* C2: when bbox_tiles yields no index, fetch yields no Tile, retrieves
\* nothing and has removed its directory once exhausted; and whenever fetch
\* is exhausted, every Tile was yielded and the directory and all image
\* files in it are deleted.
C2_ExhaustedCleansUp ==
    /\ (called /\ tiles = <<>>) =>
            /\ pc = "exhausted"
            /\ yielded = <<>> /\ attempts = <<>>
            /\ ~dir_path /\ files = {}
    /\ pc = "exhausted" =>
            /\ ~dir_path /\ files = {}
            /\ Len(yielded) = Len(tiles)
            /\ attempts = tiles

C2_Witness ==
    /\ pc = "exhausted" /\ called /\ tiles = <<>>
    /\ WellFormed(bbox) /\ events = <<"stop">> /\ ~dir_path

\* C3: a constructor call with a combination the capabilities do not declare
\* raises an error naming a violated constraint and leaves no TileMatrix:
\* an existing TileMatrix has a declared combination and positive derived
\* spans, and only on such a one is fetch (with its bbox_tiles) invoked.
C3_InvalidCombinationRejected ==
    /\ (args # NoArgs /\ ~ValidCombination(args)) =>
            /\ tm = NoTM
            /\ NamesViolation(error, args)
            /\ pc = "idle" /\ bbox = NoBox /\ ~called
    /\ tm # NoTM =>
            /\ args # NoArgs /\ ValidCombination(args) /\ error = ""
            /\ tm.pixel_span > 0 /\ tm.span_x > 0 /\ tm.span_y > 0
    /\ pc # "idle" => tm # NoTM

C3_Witness ==
    /\ args # NoArgs
    /\ args.layer = "lufo_rd" /\ args.tile_system = "wgs84"
    /\ error = "Tile system not found."
    /\ tm = NoTM

\* C4: a malformed box (lower.x > upper.x or lower.y > upper.y) given to
\* fetch is rejected before the directory is made, before bbox_tiles
\* resolves it and before any retrieval; the sequence never ends normally.
C4_MalformedBoxRejected ==
    (bbox # NoBox /\ ~WellFormed(bbox)) =>
        /\ ~dir_path /\ files = {}
        /\ ~called
        /\ attempts = <<>> /\ yielded = <<>>
        /\ pc \in {"created", "raised", "closed"}

\* C10: when the retrieval for the k-th index raises, the consumer has got
\* the Tiles of the k-1 earlier indices in bbox_tiles order and then the
\* error; no Tile exists for index k, no later index was retrieved, and a
\* sequence that ends without an error has yielded a Tile for every index.
C10_FailureSignalled ==
    /\ pc = "raised" =>
            /\ Len(attempts) >= 1
            /\ attempts = SubSeq(tiles, 1, Len(attempts))
            /\ Len(yielded) = Len(attempts) - 1
            /\ \A j \in 1..Len(yielded) : yielded[j].index = tiles[j]
            /\ Len(events) >= Len(attempts)
            /\ \A j \in 1..Len(yielded) : events[j] = "tile"
            /\ events[Len(attempts)] = "error"
    /\ ("stop" \in Range(events) /\ "error" \notin Range(events)) =>
            /\ Len(yielded) = Len(tiles)
            /\ \A j \in 1..Len(tiles) : yielded[j].index = tiles[j]
    /\ Len(attempts) <= Len(yielded) + 1
    /\ Len(attempts) > Len(yielded) => pc = "raised"

C10_Witness ==
    /\ pc = "raised"
    /\ Len(yielded) >= 1
    /\ Len(attempts) < Len(tiles)
    /\ events[Len(events)] = "error"

----------------------------------------------------------------------------
(* Properties of the geometry, checked under SpecGeo. *)

\* C5: for a well-formed box, bbox_tiles yields every grid cell the box
\* reaches into, however small the distance, and the extent of every
\* yielded index intersects the box.
C5_ExactlyIntersectingCells ==
    (called /\ WellFormed(bbox)) =>
        /\ \A idx \in GridCells(tm) :
                Overlaps(tile_bbox(tm, idx), bbox) => idx \in Range(tiles)
        /\ \A idx \in Range(tiles) : Intersects(tile_bbox(tm, idx), bbox)

\* C6: for a box (a point included) fully inside the grid extent bbox_tiles
\* is non-empty, and for every box each yielded index lies in the grid.
C6_NonEmptyAndInRange ==
    called =>
        /\ (WellFormed(bbox) /\ InsideGrid(tm, bbox)) => tiles # <<>>
        /\ \A idx \in Range(tiles) : InGrid(tm, idx)

\* C7: for an index i of the grid, bbox_tiles(tile_bbox(i)) contains i.
C7_RoundTrip ==
    (called /\ index # NoIndex /\ InGrid(tm, index)) =>
        index \in Range(tiles)

C7_Witness ==
    /\ called /\ index # NoIndex
    /\ index = TileIndex(tm.matrix.matrixheight - 1, tm.matrix.matrixwidth - 1)
    /\ tm.matrix.matrixwidth > 1
    /\ bbox = tile_bbox(tm, index)
    /\ tiles = <<index>>

\* The grid line (counted from the top-left corner) a coordinate lies on.
OnXLine(self, x) == (x - self.matrix.topleftcorner[1]) % self.span_x = 0
OnYLine(self, y) == (self.matrix.topleftcorner[2] - y) % self.span_y = 0
XLine(self, x) == floor(x - self.matrix.topleftcorner[1], self.span_x)
YLine(self, y) == floor(self.matrix.topleftcorner[2] - y, self.span_y)

\* The grid cells in the given rows and columns that the box reaches into.
ReachedCells(self, box, rows, cols) ==
    {idx \in GridCells(self) :
        /\ idx.row \in rows /\ idx.col \in cols
        /\ Overlaps(tile_bbox(self, idx), box)}

\* The box of the worked example, on the 10 x 10 grid of equal spans:
\* lower = (0, 0), upper = (2.5 spans, 10 spans), top_left = (0, 10 spans).
ExampleBox(self) ==
    BoundingBox(Rijksdriehoek(0, 0),
                Rijksdriehoek(5 * (self.span_x \div 2), 10 * self.span_y))

ExampleTiles == [k \in 1..30 |-> TileIndex((k - 1) \div 3, (k - 1) % 3)]

\* C8: for a box of positive area with an edge exactly on a grid line,
\* bbox_tiles yields the cells on the inner side of the line that the box
\* reaches into and none on the outer side; the example box yields rows
\* 0..9 x cols 0..2; a box equal to one tile's extent yields that tile only.
C8_BoundaryExactness ==
    (called /\ PositiveArea(bbox)) =>
        LET rows == 0..(tm.matrix.matrixheight - 1)
            cols == 0..(tm.matrix.matrixwidth - 1)
        IN
        /\ OnXLine(tm, bbox.upper.x) =>
            /\ \A idx \in Range(tiles) : idx.col # XLine(tm, bbox.upper.x)
            /\ ReachedCells(tm, bbox, rows, {XLine(tm, bbox.upper.x) - 1})
                    \subseteq Range(tiles)
        /\ OnXLine(tm, bbox.lower.x) =>
            /\ \A idx \in Range(tiles) : idx.col # XLine(tm, bbox.lower.x) - 1
            /\ ReachedCells(tm, bbox, rows, {XLine(tm, bbox.lower.x)})
                    \subseteq Range(tiles)
        /\ OnYLine(tm, bbox.upper.y) =>
            /\ \A idx \in Range(tiles) : idx.row # YLine(tm, bbox.upper.y) - 1
            /\ ReachedCells(tm, bbox, {YLine(tm, bbox.upper.y)}, cols)
                    \subseteq Range(tiles)
        /\ OnYLine(tm, bbox.lower.y) =>
            /\ \A idx \in Range(tiles) : idx.row # YLine(tm, bbox.lower.y)
            /\ ReachedCells(tm, bbox, {YLine(tm, bbox.lower.y) - 1}, cols)
                    \subseteq Range(tiles)
        /\ (tm.tile_level = "m13" /\ bbox = ExampleBox(tm)) =>
                tiles = ExampleTiles
        /\ \A idx \in GridCells(tm) :
                bbox = tile_bbox(tm, idx) => tiles = <<idx>>

\* C9: for a zero-area box at a point p inside the grid extent (p on a grid
\* line or corner included) bbox_tiles yields exactly one index, of a tile
\* whose extent contains p.
C9_PointBoxSingleTile ==
    (called /\ bbox.lower = bbox.upper /\ InsideGrid(tm, bbox)) =>
        /\ Len(tiles) = 1
        /\ Contains(tile_bbox(tm, tiles[1]), bbox.lower)

====
